---- MODULE Spec2Model ----
(***************************************************************************)
(* TickTick MCP server: the call-tool dispatcher, its HTTP routes and the  *)
(* persisted task cache (src/src/index.js), together with the Genspark     *)
(* variant of the same server (src/unnamed/part_000).                      *)
(*                                                                         *)
(* One server process is modelled.  Node runs a handler to completion      *)
(* until it awaits; the cache is read and written with readFileSync and    *)
(* writeFileSync, so the only suspension point of a handler is the await   *)
(* of the upstream request.  The environment chooses the content of the    *)
(* cache file at start-up, whether each file read and write succeeds, the  *)
(* answer of the upstream API and the passage of time.                     *)
(***************************************************************************)
EXTENDS Integers, Sequences, FiniteSets, TLC

VARIABLES build, sdkHandlerField, now, file, pending, resp, calls

vars == <<build, sdkHandlerField, now, file, pending, resp, calls>>

(***************************** bounds **************************************)
MaxLongTicks == 1     \* clock steps (of TTL less one second) in a run
MaxSlots == 2         \* handlers suspended at the upstream await at once
MaxCalls == 2         \* invocations in a run

(***************************** constants ***********************************)
Second == 1000
CACHE_TTL == 24 * 60 * 60 * 1000
LongTick == CACHE_TTL - Second
StartTime == 2 * Second        \* the clock when the process starts
DefaultInbox == "inbox119467736"
Absent == "undefined"          \* a JavaScript undefined (a field not given)

TaskIds == {"t1", "t2"}
Slots == 1 .. MaxSlots

(***************************** the catalog *********************************)
UpstreamTools ==
  {"ticktick_get_projects", "ticktick_create_project", "ticktick_get_habits",
   "ticktick_start_focus_session", "ticktick_get_today_tasks"}

StubTools ==
  {"ticktick_update_task", "ticktick_delete_task", "ticktick_complete_task",
   "ticktick_get_task_details", "ticktick_create_habit", "ticktick_checkin_habit",
   "ticktick_get_focus_stats", "ticktick_get_tags", "ticktick_create_tag",
   "ticktick_add_tag_to_task", "ticktick_archive_project",
   "ticktick_duplicate_project", "ticktick_get_calendar_events",
   "ticktick_create_calendar_event", "ticktick_get_productivity_report",
   "ticktick_get_overdue_tasks", "ticktick_share_project", "ticktick_add_task_note"}

CacheTools ==
  {"ticktick_get_cached_tasks", "ticktick_register_task_id", "ticktick_import_from_csv"}

\* the names the list-tools handler advertises
Catalog == UpstreamTools \cup {"ticktick_create_task"} \cup CacheTools \cup StubTools

\* the tools array of the list-tools handler, in its order
AdvertisedTools ==
  <<"ticktick_get_projects", "ticktick_create_project", "ticktick_create_task",
    "ticktick_update_task", "ticktick_delete_task", "ticktick_complete_task",
    "ticktick_get_task_details", "ticktick_get_cached_tasks",
    "ticktick_register_task_id", "ticktick_import_from_csv", "ticktick_get_habits",
    "ticktick_create_habit", "ticktick_checkin_habit", "ticktick_start_focus_session",
    "ticktick_get_focus_stats", "ticktick_get_tags", "ticktick_create_tag",
    "ticktick_add_tag_to_task", "ticktick_archive_project",
    "ticktick_duplicate_project", "ticktick_get_calendar_events",
    "ticktick_create_calendar_event", "ticktick_get_productivity_report",
    "ticktick_get_today_tasks", "ticktick_get_overdue_tasks",
    "ticktick_share_project", "ticktick_add_task_note">>

\* the tools array of the Genspark variant's list-tools handler
GensparkTools ==
  <<"ticktick_get_projects", "ticktick_create_task", "ticktick_get_today_tasks",
    "ticktick_get_overdue_tasks", "ticktick_get_cached_tasks",
    "ticktick_complete_task", "ticktick_update_task", "ticktick_delete_task">>

\* the method a case of the call-tool switch calls; the default branch
\* calls none
SwitchCase(name) ==
  CASE name = "ticktick_get_projects" -> "getProjects"
    [] name = "ticktick_create_project" -> "createProject"
    [] name = "ticktick_create_task" -> "createTask"
    [] name = "ticktick_update_task" -> "updateTask"
    [] name = "ticktick_delete_task" -> "deleteTask"
    [] name = "ticktick_complete_task" -> "completeTask"
    [] name = "ticktick_get_task_details" -> "getTaskDetails"
    [] name = "ticktick_get_cached_tasks" -> "getCachedTasks"
    [] name = "ticktick_register_task_id" -> "registerTaskId"
    [] name = "ticktick_import_from_csv" -> "importFromCsv"
    [] name = "ticktick_get_habits" -> "getHabits"
    [] name = "ticktick_create_habit" -> "createHabit"
    [] name = "ticktick_checkin_habit" -> "checkinHabit"
    [] name = "ticktick_start_focus_session" -> "startFocusSession"
    [] name = "ticktick_get_focus_stats" -> "getFocusStats"
    [] name = "ticktick_get_tags" -> "getTags"
    [] name = "ticktick_create_tag" -> "createTag"
    [] name = "ticktick_add_tag_to_task" -> "addTagToTask"
    [] name = "ticktick_archive_project" -> "archiveProject"
    [] name = "ticktick_duplicate_project" -> "duplicateProject"
    [] name = "ticktick_get_calendar_events" -> "getCalendarEvents"
    [] name = "ticktick_create_calendar_event" -> "createCalendarEvent"
    [] name = "ticktick_get_productivity_report" -> "getProductivityReport"
    [] name = "ticktick_get_today_tasks" -> "getTodayTasks"
    [] name = "ticktick_get_overdue_tasks" -> "getOverdueTasks"
    [] name = "ticktick_share_project" -> "shareProject"
    [] name = "ticktick_add_task_note" -> "addTaskNote"
    [] OTHER -> "default"

\* the "required" list of each advertised schema
Required(name) ==
  CASE name = "ticktick_create_task" -> {"title"}
    [] name = "ticktick_register_task_id" -> {"task_id", "project_id", "title"}
    [] name = "ticktick_import_from_csv" -> {"csv_data"}
    [] name = "ticktick_create_project" -> {"name"}
    [] name \in {"ticktick_update_task", "ticktick_delete_task",
                 "ticktick_complete_task", "ticktick_get_task_details"} -> {"task_id"}
    [] OTHER -> {}

(***************************** arguments ***********************************)
\* An argument object: the fields the modelled handlers read.  defined is
\* FALSE for a call-tool request that carries no arguments at all.
Args(tid, pid, title, inc, hasCsv, csv) ==
  [defined |-> TRUE, task_id |-> tid, project_id |-> pid, title |-> title,
   include_stale |-> inc, has_csv |-> hasCsv, csv_data |-> csv]

EmptyArgs == Args(Absent, Absent, Absent, Absent, FALSE, <<>>)
NoArgs == [EmptyArgs EXCEPT !.defined = FALSE]

HasField(args, f) ==
  /\ args.defined
  /\ CASE f = "task_id" -> args.task_id # Absent
       [] f = "project_id" -> args.project_id # Absent
       [] f = "title" -> args.title # Absent
       [] f = "include_stale" -> args.include_stale # Absent
       [] f = "csv_data" -> args.has_csv
       [] OTHER -> FALSE

MissingRequired(name, args) == {f \in Required(name) : ~HasField(args, f)}

(***************************** time ****************************************)
\* Date.prototype.toISOString: the fields of the UTC timestamp, to the
\* millisecond (the calendar date is kept as a day count).
ToISOString(t) ==
  <<t \div 86400000, (t % 86400000) \div 3600000, (t % 3600000) \div 60000,
    (t % 60000) \div 1000, t % 1000>>

\* new Date(isoString) as a number of milliseconds
DateParse(iso) ==
  iso[1] * 86400000 + iso[2] * 3600000 + iso[3] * 60000 + iso[4] * 1000 + iso[5]

NoTimestamp == <<>>            \* a record that carries no cached_at

\* a comparison that also counts an age of exactly the TTL as stale
isTaskStaleAtTTL(age) == age >= CACHE_TTL

isTaskStaleStrictness(age) == age > CACHE_TTL

\* a staleness test that does not look at the clock
isTaskStaleWithoutClock(task, t) == task.cached_at = NoTimestamp

isTaskStale(task, t) ==
  IF task.cached_at = NoTimestamp THEN TRUE
  ELSE isTaskStaleStrictness(t - DateParse(task.cached_at))

(***************************** the cache file ******************************)
EmptyTasks == [k \in {} |-> 0]

\* the members of the persisted object beside tasks: none, or a version
\* member another program wrote
NoSiblings == {}
Siblings == {"version"}

\* What the file holds: nothing (absent), bytes JSON.parse rejects
\* (corrupt), a JSON object without a tasks member (notasks), or a document
\* {tasks: {...}} (doc); siblings are the other members of the object.
File(kind, tasks) == [kind |-> kind, tasks |-> tasks, siblings |-> NoSiblings]
AbsentFile == File("absent", EmptyTasks)
WithSiblings(f) == [f EXCEPT !.siblings = Siblings]

\* A value loadCache returns, or the exception that leaves it (threw).
Loaded(hasTasks, tasks, threw) ==
  [hasTasks |-> hasTasks, tasks |-> tasks, siblings |-> NoSiblings, threw |-> threw]
EmptyDocument == Loaded(TRUE, EmptyTasks, FALSE)

\* a parse that keeps the tasks member alone
JSONParseTasksOnly(f) == Loaded(f.kind = "doc", f.tasks, FALSE)

\* JSON.parse of the file's text: the object with all its members
JSONParse(f) == [Loaded(f.kind = "doc", f.tasks, FALSE) EXCEPT !.siblings = f.siblings]

\* a serialisation that writes the tasks member alone
StringifyTasksOnly(data) == File("doc", data.tasks)

\* JSON.stringify of the object saveCache is given: all its members
JSONStringify(data) ==
  [File(IF data.hasTasks THEN "doc" ELSE "notasks", data.tasks)
     EXCEPT !.siblings = data.siblings]

\* The file after a cache-store method, and whether an exception left it.
Stored(f, threw) == [file |-> f, threw |-> threw]

\* a record stamped with the epoch instead of the time of the put
CacheRecordEpoch(pid, title, t) ==
  [project_id |-> pid, title |-> title, cached_at |-> <<0, 0, 0, 0, 0>>]

CacheRecord(pid, title, t) ==
  [project_id |-> pid, title |-> title, cached_at |-> ToISOString(t)]

\* loadCache without its try/catch: a failing read or parse propagates
loadCacheNoCatch(f, readOk) ==
  IF f.kind = "absent" THEN EmptyDocument
  ELSE IF ~readOk \/ f.kind = "corrupt" THEN Loaded(FALSE, EmptyTasks, TRUE)
  ELSE JSONParse(f)

\* loadCache: the value it returns.  readOk is whether readFileSync succeeds.
loadCache(f, readOk) ==
  IF f.kind = "absent" THEN EmptyDocument
  ELSE IF ~readOk THEN EmptyDocument
  ELSE IF f.kind = "corrupt" THEN EmptyDocument
  ELSE JSONParse(f)

\* saveCache: the file after it.  writeOk is whether writeFileSync succeeds;
\* the catch logs a failure and returns.
saveCache(f, data, writeOk) ==
  IF writeOk THEN Stored(JSONStringify(data), FALSE) ELSE Stored(f, FALSE)

\* a put that writes the new record alone
PutRecordAlone(tasks, id, rec) == [k \in {id} |-> rec]

\* a put that keeps the record an id already has
PutRecordKeepFirst(tasks, id, rec) ==
  [k \in DOMAIN tasks \cup {id} |-> IF k \in DOMAIN tasks THEN tasks[k] ELSE rec]

\* cache.tasks[taskId] = {...}
PutRecord(tasks, id, rec) ==
  [k \in DOMAIN tasks \cup {id} |-> IF k = id THEN rec ELSE tasks[k]]

\* The body of addTaskToCache's try block.  A document without a tasks
\* member makes the assignment throw a TypeError.
addTaskToCacheBody(f, id, pid, title, t, readOk, writeOk) ==
  LET cache == loadCache(f, readOk) IN
    IF cache.threw \/ ~cache.hasTasks THEN Stored(f, TRUE)
    ELSE saveCache(f, [cache EXCEPT !.tasks =
                              PutRecord(cache.tasks, id, CacheRecord(pid, title, t))],
                   writeOk)

\* addTaskToCache without its try/catch
addTaskToCacheNoCatch(f, id, pid, title, t, readOk, writeOk) ==
  addTaskToCacheBody(f, id, pid, title, t, readOk, writeOk)

\* addTaskToCache: its catch logs whatever the body threw and returns
addTaskToCache(f, id, pid, title, t, readOk, writeOk) ==
  Stored(addTaskToCacheBody(f, id, pid, title, t, readOk, writeOk).file, FALSE)

\* a start-up that writes the empty document whatever it finds
initializeCacheAlways(f, writeOk) == saveCache(f, EmptyDocument, writeOk).file

\* initializeCache: writes the empty document only when no file exists
initializeCache(f, writeOk) ==
  IF f.kind = "absent" THEN saveCache(f, EmptyDocument, writeOk).file ELSE f

\* what a run of a handler did to the cache, for the result it reports
PutGhost(res, f, put, id, rec, readOk, writeOk) ==
  [res EXCEPT
     !.id = id,
     !.stored = put.file.kind = "doc" /\ id \in DOMAIN put.file.tasks
                /\ put.file.tasks[id] = rec,
     !.same = f.kind = "doc" /\ id \in DOMAIN f.tasks
              /\ f.tasks[id].project_id = rec.project_id
              /\ f.tasks[id].title = rec.title,
     !.loadFailed = f.kind # "absent" /\ ~readOk,
     !.saveFailed = loadCache(f, readOk).hasTasks /\ ~writeOk]

(***************************** responses ***********************************)
Transports == {"rpc", "route", "execute"}
NoPeer == ""

\* What a handler produced: its return value or the error it threw (code is
\* the code of a thrown McpError), with what the run did to the cache: id is
\* the key it put, stored whether the record was in the file when the put
\* returned, same whether the id already had a record with that project and
\* title, listed the tasks a listing returned, imported the rows an
\* import counted.
Result(ok, msg) ==
  [ok |-> ok, msg |-> msg, code |-> "none", id |-> Absent, stored |-> FALSE,
   same |-> FALSE, loadFailed |-> FALSE, saveFailed |-> FALSE, listed |-> {}, imported |-> 0,
   overlap |-> FALSE, peer |-> NoPeer]

\* a catch that throws a new error without the message of the one caught
CallToolCatchNoMessage(res) ==
  [res EXCEPT !.code = "InternalError", !.msg = "Internal error"]

\* The catch of the call-tool handler: whatever was thrown is thrown again
\* as McpError(ErrorCode.InternalError, error.message).
CallToolCatch(res) == [res EXCEPT !.code = "InternalError"]

\* a route that answers 200 whatever the handler did
HttpStatusAlwaysOk(ok) == 200

\* res.json(...) answers 200, res.status(500).json(...) answers 500
HttpStatus(ok) == IF ok THEN 200 ELSE 500

\* what the call-tool handler hands to the SDK or to the execute-by-name
\* route: the handler's return value, or what its catch throws
CallTool(res) == IF res.ok THEN res ELSE CallToolCatch(res)

\* The response a transport sends for a handler result.  code is the RPC
\* error code, status the HTTP status (0 on the RPC transport).
Render(tr, name, args, ran, res) ==
  [transport |-> tr, name |-> name, args |-> args, ran |-> ran,
   outcome |-> IF res.ok THEN "success" ELSE "failure",
   code |-> IF tr = "rpc" THEN CallTool(res).code ELSE "none",
   status |-> IF tr = "rpc" THEN 0 ELSE HttpStatus(res.ok),
   msg |-> IF tr = "route" THEN res.msg ELSE CallTool(res).msg, id |-> res.id, stored |-> res.stored, same |-> res.same,
   loadFailed |-> res.loadFailed, saveFailed |-> res.saveFailed,
   listed |-> res.listed, imported |-> res.imported,
   overlap |-> res.overlap, peer |-> res.peer]

NoResponse ==
  [Render("rpc", "", NoArgs, FALSE, Result(TRUE, "")) EXCEPT !.outcome = "none"]

\* a slot of the event loop: a handler suspended at its upstream await
\* (requests counts the upstream requests the handler has issued)
Idle == [name |-> "idle", transport |-> "rpc", args |-> NoArgs,
         overlap |-> FALSE, peer |-> NoPeer, requests |-> 0]

\* a handler that issues its upstream request again when it failed
afterThrowRetry(p) == [p EXCEPT !.requests = p.requests + 1]

\* makeApiRequest's catch throws the error on and the handler's catch wraps
\* it: the handler ends, no second request is issued
afterThrow(p) == Idle

Busy(s) == pending[s].name # "idle"

\* The execute-by-name route calls a member of the entry the SDK keeps for
\* tools/call; the call-tool handler runs only if the SDK has that member.
Reaches(tr) == tr # "execute" \/ sdkHandlerField

\* express.json gives every HTTP route a body object; only a call-tool
\* request can come without arguments.
Admits(tr, args) == tr = "rpc" \/ args.defined

(***************************** initial state *******************************)
\* records of earlier runs of the server, and one another program wrote
\* into a document that has a version member
OldRecord(t) == CacheRecord("p1", "old", t)
ForeignRecord == [project_id |-> "p1", title |-> "old", cached_at |-> NoTimestamp]

\* what the environment may have left in the cache file
InitialFiles ==
  {AbsentFile, File("corrupt", EmptyTasks), File("notasks", EmptyTasks),
   File("doc", EmptyTasks), File("doc", [k \in {"t1"} |-> OldRecord(0)]),
   File("doc", [k \in TaskIds |-> OldRecord(IF k = "t1" THEN 0 ELSE Second)]),
   WithSiblings(File("doc", [k \in {"t2"} |-> ForeignRecord]))}

\* the state after the constructor (initializeCache, setupHandlers)
Init ==
  /\ build \in {"index", "genspark"}
  /\ sdkHandlerField \in BOOLEAN
  /\ now = StartTime
  /\ \E f \in InitialFiles, writeOk \in BOOLEAN : file = initializeCache(f, writeOk)
  /\ pending = [s \in Slots |-> Idle]
  /\ resp = NoResponse
  /\ calls = 0

(***************************** the handlers ********************************)
\* registerTaskId: <<file after, result>>
registerTaskIdRun(f, args, t, readOk, writeOk) ==
  IF ~args.defined
  THEN <<f, Result(FALSE, "Failed to register task: TypeError")>>
  ELSE LET put == addTaskToCache(f, args.task_id, args.project_id, args.title,
                                 t, readOk, writeOk) IN
    IF put.threw
    THEN <<put.file, Result(FALSE, "Failed to register task: cache error")>>
    ELSE <<put.file,
           PutGhost(Result(TRUE, "Task Registered Successfully"), f, put, args.task_id,
                    CacheRecord(args.project_id, args.title, t), readOk, writeOk)>>

\* a listing that never filters the stale records out
ExcludesStaleNever(args) == FALSE

\* the include_stale test of getCachedTasks: if (!args.include_stale)
ExcludesStale(args) == args.include_stale # "true"

\* getCachedTasks: the tasks it returns, as <<id, is_stale>> pairs
CachedTaskList(f, args, t, readOk) ==
  LET tasks == loadCache(f, readOk).tasks
      all == {id \in DOMAIN tasks :
                args.project_id = Absent \/ tasks[id].project_id = args.project_id}
      kept == IF ExcludesStale(args)
              THEN {id \in all : ~isTaskStale(tasks[id], t)} ELSE all
  IN {<<id, isTaskStale(tasks[id], t)>> : id \in kept}

getCachedTasksRun(f, args, t, readOk) ==
  IF loadCache(f, readOk).threw
  THEN Result(FALSE, "Failed to get cached tasks: cache error")
  ELSE IF ~args.defined
  THEN Result(FALSE, "Failed to get cached tasks: TypeError")
  ELSE [Result(TRUE, "Cached Tasks") EXCEPT
          !.listed = CachedTaskList(f, args, t, readOk),
          !.loadFailed = f.kind # "absent" /\ ~readOk]

(***************************** bulk import *********************************)
\* A text is a sequence of lines, a line the sequence of its comma-separated
\* fields after trim; <<"">> is a blank line.
IsBlank(line) == line = <<"">>

RECURSIVE NonBlank(_)
NonBlank(lines) ==
  IF lines = <<>> THEN <<>>
  ELSE IF IsBlank(Head(lines)) THEN NonBlank(Tail(lines))
  ELSE <<Head(lines)>> \o NonBlank(Tail(lines))

\* header.includes(name): a substring test on the header line
HeaderIncludes(header, name) ==
  \E i \in 1 .. Len(header) :
    header[i] = name \/ (header[i] = "subtitle" /\ name = "title")

HeaderOk(header) ==
  /\ HeaderIncludes(header, "task_id")
  /\ HeaderIncludes(header, "project_id")
  /\ HeaderIncludes(header, "title")

\* const [task_id, project_id, title] = line.split(',').map(trim)
Field(line, i) == IF i <= Len(line) THEN line[i] ELSE Absent
Truthy(v) == v # Absent /\ v # ""

\* a loop that registers every data row
RowOkAlways(line) == TRUE

\* if (task_id && project_id && title)
RowOk(line) == Truthy(Field(line, 1)) /\ Truthy(Field(line, 2)) /\ Truthy(Field(line, 3))

\* the loop over the data rows; io[i] = <<readOk, writeOk>> of row i's put;
\* an exception leaving a put ends the loop
RECURSIVE ImportRows(_, _, _, _, _)
ImportRows(f, lines, i, t, io) ==
  IF i > Len(lines) THEN Stored(f, FALSE)
  ELSE IF ~RowOk(lines[i]) THEN ImportRows(f, lines, i + 1, t, io)
  ELSE LET put == addTaskToCache(f, Field(lines[i], 1), Field(lines[i], 2),
                                 Field(lines[i], 3), t, io[i][1], io[i][2]) IN
    IF put.threw THEN put ELSE ImportRows(put.file, lines, i + 1, t, io)

ImportedRows(lines) == {i \in 2 .. Len(lines) : RowOk(lines[i])}

\* importFromCsv: <<file after, result>>
importFromCsvRun(f, args, t, io) ==
  IF ~args.defined \/ ~args.has_csv
  THEN <<f, Result(FALSE, "Failed to import CSV: TypeError")>>
  ELSE LET lines == NonBlank(args.csv_data) IN
    IF lines = <<>>
    THEN <<f, Result(FALSE, "Failed to import CSV: TypeError")>>
    ELSE IF ~HeaderOk(lines[1])
    THEN <<f, Result(FALSE, "Failed to import CSV: CSV must have columns")>>
    ELSE LET rows == ImportRows(f, lines, 2, t, io) IN
      IF rows.threw
      THEN <<rows.file, Result(FALSE, "Failed to import CSV: cache error")>>
      ELSE <<rows.file,
             [Result(TRUE, "CSV Import Completed") EXCEPT
                !.imported = Cardinality(ImportedRows(lines)),
                !.saveFailed = \E i \in ImportedRows(lines) : ~io[i][2],
                !.loadFailed = \E i \in ImportedRows(lines) : ~io[i][1]]>>

(***************************** inputs **************************************)
RegisterInputs ==
  {Args(id, "p1", "a", Absent, FALSE, <<>>) : id \in TaskIds}
    \cup {Args(Absent, "p1", "a", Absent, FALSE, <<>>),
          NoArgs}

ListInputs ==
  {Args(Absent, pid, Absent, inc, FALSE, <<>>) :
     pid \in {Absent, "p1"}, inc \in {Absent, "true", "false"}} \cup {NoArgs}

CreateInputs ==
  {Args(Absent, pid, title, Absent, FALSE, <<>>) :
     pid \in {Absent, "p1"}, title \in {"a"}}
    \cup {Args(Absent, Absent, Absent, Absent, FALSE, <<>>), NoArgs}

Csv(lines) == Args(Absent, Absent, Absent, Absent, TRUE, lines)

\* the outcomes of the file read and write of each put of an import
IoChoices(args) ==
  IF args.defined /\ args.has_csv
  THEN [ImportedRows(NonBlank(args.csv_data)) -> BOOLEAN \X BOOLEAN]
  ELSE [{} -> BOOLEAN \X BOOLEAN]

CsvInputs ==
  {Csv(<<<<"task_id", "project_id", "title">>, <<"">>, <<"t2", "p1">>, <<"t1", "p1", "a">>>>),
   Csv(<<<<"title", "task_id", "project_id">>, <<"a", "t2", "p1">>>>),
   Csv(<<<<"task_id", "title">>, <<"t1", "a">>>>),
   Csv(<<<<"task_id", "project_id", "subtitle">>, <<"t1", "p1", "a">>>>),
   Csv(<<<<"">>>>),
   EmptyArgs, NoArgs}

StubNames == {"ticktick_update_task", "ticktick_get_tags"}
UnknownNames == {"no_such_tool"}
InvokedNames ==
  {"ticktick_create_task", "ticktick_get_projects"} \cup CacheTools
    \cup StubNames \cup UnknownNames

(***************************** actions *************************************)
\* the clock advances
Tick ==
  /\ now' = now + LongTick
  /\ now' <= StartTime + MaxLongTicks * LongTick
  /\ UNCHANGED <<build, sdkHandlerField, file, pending, resp, calls>>

Called(tr, args) ==
  /\ build = "index"
  /\ calls < MaxCalls
  /\ Reaches(tr)
  /\ Admits(tr, args)
  /\ calls' = calls + 1

registerTaskId(tr, args, readOk, writeOk) ==
  /\ Called(tr, args)
  /\ LET run == registerTaskIdRun(file, args, now, readOk, writeOk) IN
       /\ file' = run[1]
       /\ resp' = Render(tr, "ticktick_register_task_id", args, TRUE, run[2])
  /\ UNCHANGED <<build, sdkHandlerField, now, pending>>

\* a listing that saves what it loaded
getCachedTasksSaving(tr, args, readOk) ==
  /\ Called(tr, args)
  /\ resp' = Render(tr, "ticktick_get_cached_tasks", args, TRUE,
                    getCachedTasksRun(file, args, now, readOk))
  /\ file' = saveCache(file, loadCache(file, readOk), TRUE).file
  /\ UNCHANGED <<build, sdkHandlerField, now, pending>>

getCachedTasks(tr, args, readOk) ==
  /\ Called(tr, args)
  /\ resp' = Render(tr, "ticktick_get_cached_tasks", args, TRUE,
                    getCachedTasksRun(file, args, now, readOk))
  /\ UNCHANGED <<build, sdkHandlerField, now, file, pending>>

importFromCsv(tr, args, io) ==
  /\ Called(tr, args)
  /\ LET run == importFromCsvRun(file, args, now, io) IN
       /\ file' = run[1]
       /\ resp' = Render(tr, "ticktick_import_from_csv", args, TRUE, run[2])
  /\ UNCHANGED <<build, sdkHandlerField, now, pending>>

\* a placeholder handler: createGenericResponse
stubHandler(tr, name, args) ==
  /\ Called(tr, args)
  /\ SwitchCase(name) # "default"
  /\ resp' = Render(tr, name, args, TRUE, Result(TRUE, "generic response"))
  /\ UNCHANGED <<build, sdkHandlerField, now, file, pending>>

\* the default branch of the call-tool switch
unknownTool(tr, name, args) ==
  /\ tr # "route"
  /\ Called(tr, args)
  /\ SwitchCase(name) = "default"
  /\ resp' = Render(tr, name, args, FALSE,
                    [Result(FALSE, "Unknown tool") EXCEPT !.code = "MethodNotFound"])
  /\ UNCHANGED <<build, sdkHandlerField, now, file, pending>>

\* the execute-by-name route when the SDK's entry has no handler member:
\* the call throws a TypeError, which the route's catch answers with 500
executeWithoutHandler(name, args) ==
  /\ build = "index"
  /\ calls < MaxCalls
  /\ ~sdkHandlerField
  /\ args.defined
  /\ calls' = calls + 1
  /\ resp' = Render("execute", name, args, FALSE, Result(FALSE, "TypeError"))
  /\ UNCHANGED <<build, sdkHandlerField, now, file, pending>>

\* createTask and the upstream-only handlers up to their await
OverlapMark(s) ==
  [u \in Slots |->
     IF u # s /\ Busy(u) THEN [pending[u] EXCEPT !.overlap = TRUE] ELSE pending[u]]

startUpstream(tr, name, args, s) ==
  /\ Called(tr, args)
  /\ ~Busy(s)
  /\ \A u \in Slots : u < s => Busy(u)
  /\ IF name = "ticktick_create_task" /\ ~args.defined
     THEN /\ resp' = Render(tr, name, args, TRUE,
                            Result(FALSE, "Failed to create task: TypeError"))
          /\ pending' = pending
     ELSE /\ resp' = resp
          /\ pending' = [OverlapMark(s) EXCEPT ![s] =
                           [name |-> name, transport |-> tr, args |-> args,
                            overlap |-> \E u \in Slots : u # s /\ Busy(u),
                            peer |-> NoPeer, requests |-> 1]]
  /\ UNCHANGED <<build, sdkHandlerField, now, file>>

\* a request body built without the inbox fallback
TaskProjectNoDefault(args) == args.project_id

\* taskData.projectId = args.project_id || 'inbox119467736'
TaskProject(args) == IF Truthy(args.project_id) THEN args.project_id ELSE DefaultInbox

\* the put of createTask: the key and fields are those of the task the
\* upstream returned, which echoes the project and title it was sent
createTaskPut(f, id, args, t, readOk, writeOk) ==
  addTaskToCache(f, id, TaskProject(args), args.title, t, readOk, writeOk)

\* createTask after its await: <<file after, result>>
createTaskRun(f, id, args, t, readOk, writeOk) ==
  LET put == createTaskPut(f, id, args, t, readOk, writeOk) IN
    IF put.threw
    THEN <<put.file, Result(FALSE, "Failed to create task: cache error")>>
    ELSE <<put.file,
           PutGhost(Result(TRUE, "Task Created Successfully"), f, put, id,
                    CacheRecord(TaskProject(args), args.title, t), readOk, writeOk)>>

\* when a handler that ran beside others stores a record, the others learn
\* the id as their peer's
PeerMark(s, id) ==
  [u \in Slots |->
     IF u = s THEN Idle
     ELSE IF Busy(u) /\ pending[u].overlap /\ pending[s].overlap
     THEN [pending[u] EXCEPT !.peer = id] ELSE pending[u]]

\* the upstream answers 2xx: the handler resumes and runs to its return
upstreamOk(s, id, readOk, writeOk) ==
  /\ build = "index"
  /\ Busy(s)
  /\ LET p == pending[s] IN
       IF p.name = "ticktick_create_task"
       THEN LET run == createTaskRun(file, id, p.args, now, readOk, writeOk) IN
            /\ file' = run[1]
            /\ resp' = Render(p.transport, p.name, p.args, TRUE,
                              [run[2] EXCEPT !.overlap = p.overlap, !.peer = p.peer])
            /\ pending' = IF run[2].stored
                          THEN PeerMark(s, id) ELSE [pending EXCEPT ![s] = Idle]
       ELSE /\ readOk /\ writeOk
            /\ file' = file
            /\ resp' = Render(p.transport, p.name, p.args, TRUE,
                              Result(TRUE, "upstream data"))
            /\ pending' = [pending EXCEPT ![s] = Idle]
  /\ UNCHANGED <<build, sdkHandlerField, now, calls>>

\* what makeApiRequest throws: a non-2xx answer with its status and
\* reason, or the error of a fetch that failed
UpstreamErrors == {"API request failed: 500 Internal Server Error", "fetch failed"}

\* a catch that caches the task it was asked to create before it throws
createTaskCatchCaching(f, args, t, err) ==
  <<addTaskToCache(f, Absent, TaskProject(args), args.title, t, TRUE, TRUE).file,
    Result(FALSE, err)>>

\* createTask when makeApiRequest throws: the catch throws the error on
\* with its message; the put is not reached.  <<file after, result>>
createTaskCatch(f, args, t, err) == <<f, Result(FALSE, err)>>

\* the upstream answers non-2xx or the request fails: makeApiRequest throws
upstreamFail(s, err) ==
  /\ build = "index"
  /\ Busy(s)
  /\ LET p == pending[s]
         run == IF p.name = "ticktick_create_task"
                THEN createTaskCatch(file, p.args, now, err)
                ELSE <<file, Result(FALSE, err)>>
     IN /\ file' = run[1]
        /\ resp' = Render(p.transport, p.name, p.args, TRUE, run[2])
  /\ pending' = [pending EXCEPT ![s] = afterThrow(pending[s])]
  /\ UNCHANGED <<build, sdkHandlerField, now, calls>>

\* the Genspark variant: its call-tool handler answers every name with a
\* mock result; its /mcp/call/:toolName route reaches it through handleRequest
gensparkCallTool(tr, name, args) ==
  /\ build = "genspark"
  /\ tr # "route"
  /\ calls < MaxCalls
  /\ Admits(tr, args)
  /\ calls' = calls + 1
  /\ resp' = IF Reaches(tr)
             THEN Render(tr, name, args, TRUE, Result(TRUE, "Mock result"))
             ELSE Render(tr, name, args, FALSE, Result(FALSE, "TypeError"))
  /\ UNCHANGED <<build, sdkHandlerField, now, file, pending>>

\* the process is started again: suspended handlers are gone
restart(writeOk) ==
  /\ file' = initializeCache(file, writeOk)
  /\ pending' = [s \in Slots |-> Idle]
  /\ resp' = NoResponse
  /\ (file.kind # "absent" => writeOk)
  /\ UNCHANGED <<build, sdkHandlerField, now, calls>>

Next ==
  \/ Tick
  \/ \E tr \in Transports, args \in RegisterInputs, readOk, writeOk \in BOOLEAN :
       registerTaskId(tr, args, readOk, writeOk)
  \/ \E tr \in Transports, args \in ListInputs, readOk \in BOOLEAN :
       getCachedTasks(tr, args, readOk)
  \/ \E tr \in Transports, args \in CsvInputs :
       \E io \in IoChoices(args) : importFromCsv(tr, args, io)
  \/ \E tr \in Transports, name \in StubNames, args \in {EmptyArgs, NoArgs} :
       stubHandler(tr, name, args)
  \/ \E tr \in Transports, name \in UnknownNames, args \in {EmptyArgs, NoArgs} :
       unknownTool(tr, name, args)
  \/ \E name \in InvokedNames : executeWithoutHandler(name, EmptyArgs)
  \/ \E tr \in Transports, args \in CreateInputs, s \in Slots :
       startUpstream(tr, "ticktick_create_task", args, s)
  \/ \E tr \in Transports, s \in Slots :
       startUpstream(tr, "ticktick_get_projects", EmptyArgs, s)
  \/ \E s \in Slots, id \in TaskIds, readOk, writeOk \in BOOLEAN :
       upstreamOk(s, id, readOk, writeOk)
  \/ \E s \in Slots, err \in UpstreamErrors : upstreamFail(s, err)
  \/ \E tr \in Transports, name \in InvokedNames, args \in {EmptyArgs, NoArgs} :
       gensparkCallTool(tr, name, args)
  \/ \E writeOk \in BOOLEAN : restart(writeOk)

Spec == Init /\ [][Next]_vars

TypeOK ==
  /\ build \in {"index", "genspark"}
  /\ file.kind \in {"absent", "corrupt", "notasks", "doc"}
  /\ calls \in 0 .. MaxCalls

(***************************** properties **********************************)
\* The kind of a response as a caller tells them apart: by the MCP error
\* code on the RPC transport, by the HTTP status on the HTTP transport.
Kind(r) ==
  IF r.outcome = "success" THEN "Success"
  ELSE IF r.transport = "rpc"
  THEN CASE r.code = "MethodNotFound" -> "UnknownOperation"
         [] r.code = "InvalidParams" -> "InvalidArgument"
         [] OTHER -> "HandlerError"
  ELSE CASE r.status = 404 -> "UnknownOperation"
         [] r.status = 400 -> "InvalidArgument"
         [] OTHER -> "HandlerError"

Answered == resp.outcome # "none"

\* C1: an invocation of a name outside the catalog, on the RPC call-tool
\* handler or the HTTP execute-by-name route, is answered with a failure a
\* caller can tell to be UnknownOperation, not a handler or internal error.
C1_UnknownOperation ==
  (Answered /\ resp.name \notin Catalog /\ resp.transport \in {"rpc", "execute"}
     /\ Reaches(resp.transport))
    => (resp.outcome = "failure" /\ Kind(resp) = "UnknownOperation")

\* C2: an invocation of a catalog operation whose arguments lack a field the
\* operation's schema requires is answered InvalidArgument, and its handler
\* does not run, so the cache gets no record from it.
C2_InvalidArgument ==
  (Answered /\ resp.name \in Catalog /\ resp.args.defined
     /\ Reaches(resp.transport)
     /\ MissingRequired(resp.name, resp.args) # {})
    => (Kind(resp) = "InvalidArgument" /\ ~resp.ran /\ ~resp.stored)

\* C3: ticktick_get_cached_tasks called without include_stale behaves as with
\* the schema's default true: every record of the cache that passes the
\* project filter is returned, the stale ones too.
C3_DefaultIncludesStale ==
  (resp.name = "ticktick_get_cached_tasks" /\ resp.outcome = "success"
     /\ resp.args.include_stale = Absent /\ ~resp.loadFailed /\ file.kind = "doc")
    => {e[1] : e \in resp.listed} =
         {id \in DOMAIN file.tasks :
            resp.args.project_id = Absent
              \/ file.tasks[id].project_id = resp.args.project_id}

\* C4: no step removes a record from the cache file, whether or not the
\* step's cache read or write fails.
C4_NoRecordRemoved == [][DOMAIN file.tasks \subseteq DOMAIN file'.tasks]_vars

\* a handler resumes after its await beside a peer that stored a record, and
\* its own put loads and saves without an I/O error
OverlappingPut(s) ==
  /\ Busy(s)
  /\ pending[s].name = "ticktick_create_task"
  /\ pending[s].overlap
  /\ pending[s].peer \in DOMAIN file.tasks
  /\ ~Busy(s)'
  /\ resp'.outcome = "success"
  /\ ~resp'.loadFailed
  /\ ~resp'.saveFailed

\* C5 as stated: when one cache-mutating invocation overlaps another that has
\* stored its record, it can complete, with cache I/O working, so that the
\* other's record is gone.
C5_LostUpdateReachable ==
  \A s \in Slots :
    (Busy(s) /\ pending[s].name = "ticktick_create_task" /\ pending[s].overlap
       /\ pending[s].peer \in DOMAIN file.tasks)
      => ENABLED (\E id \in TaskIds \ {pending[s].peer} :
                    /\ upstreamOk(s, id, TRUE, TRUE)
                    /\ pending[s].peer \notin DOMAIN file'.tasks)

\* C5: the put of an invocation that overlaps another keeps the other's
\* record; a put is one uninterrupted load-mutate-save, so no update is lost
\* inside one server process.
C5_NoLostUpdate ==
  [][\A s \in Slots :
       OverlappingPut(s) =>
         /\ resp'.id \in DOMAIN file'.tasks
         /\ pending[s].peer \in DOMAIN file'.tasks
         /\ (pending[s].peer # resp'.id =>
               file'.tasks[pending[s].peer] = file.tasks[pending[s].peer])]_vars

C5_OverlapStored ==
  /\ resp.name = "ticktick_create_task"
  /\ resp.overlap /\ resp.stored /\ ~resp.loadFailed
  /\ resp.peer \in DOMAIN file.tasks
  /\ resp.peer # resp.id
  /\ resp.id \in DOMAIN file.tasks

\* C6: create-task with a title and no project id, answered 2xx by the
\* upstream, returns success, and the record the cache then holds under the
\* returned task's id has project_id equal to the inbox identifier.
C6_InboxDefault ==
  (build = "index" /\ resp.name = "ticktick_create_task" /\ resp.ran
     /\ resp.args.defined /\ resp.args.project_id = Absent
     /\ resp.args.title # Absent /\ resp.msg \notin UpstreamErrors)
    => /\ resp.outcome = "success"
       /\ (~resp.saveFailed /\ file.kind # "notasks" =>
             /\ file.kind = "doc"
             /\ resp.id \in DOMAIN file.tasks
             /\ file.tasks[resp.id].project_id = DefaultInbox
             /\ file.tasks[resp.id].title = resp.args.title)

C6_CreatedInInbox ==
  /\ build = "index"
  /\ resp.name = "ticktick_create_task" /\ resp.outcome = "success"
  /\ resp.args.defined /\ resp.args.project_id = Absent /\ resp.args.title = "a"
  /\ resp.stored
  /\ file.tasks[resp.id].project_id = DefaultInbox

\* what ran the cache store: a register with arguments, a create-task the
\* upstream answered 2xx, an import whose header names the three columns
RanCacheStore ==
  /\ build = "index"
  /\ Answered /\ resp.ran /\ resp.args.defined
  /\ \/ resp.name = "ticktick_register_task_id"
     \/ resp.name = "ticktick_create_task"
          /\ resp.msg \notin UpstreamErrors
     \/ resp.name = "ticktick_import_from_csv"
          /\ resp.args.has_csv
          /\ NonBlank(resp.args.csv_data) # <<>>
          /\ HeaderOk(NonBlank(resp.args.csv_data)[1])

\* C7: a failure of the cache store stays inside it: create-task, register
\* and import answer success though the cache file could not be written, and
\* no response is a failure the cache store raised.
C7_CacheFailureSwallowed == RanCacheStore => resp.outcome = "success"

C7_SuccessWithoutSave ==
  RanCacheStore /\ resp.saveFailed /\ ~resp.stored /\ resp.outcome = "success"

\* a step of the named operation, run by a handler that was given arguments
StepOf(name) ==
  /\ build = "index"
  /\ resp' # resp
  /\ resp'.name = name
  /\ resp'.ran
  /\ resp'.args.defined

\* the cache file is absent, unparsable, or this read of it fails
NothingToLoad(readFailed) == file.kind \in {"absent", "corrupt"} \/ readFailed

\* C8: load never fails.  With the cache file absent, unreadable or
\* unparsable it returns the empty document: a list that follows returns
\* zero tasks, and a put that follows, its write working, leaves a document
\* holding its record alone.
C8_LoadNeverFails ==
  [][/\ \A readOk \in BOOLEAN :
          NothingToLoad(~readOk) => loadCache(file, readOk) = EmptyDocument
     /\ (StepOf("ticktick_get_cached_tasks") /\ NothingToLoad(resp'.loadFailed))
          => (resp'.outcome = "success" /\ resp'.listed = {})
     /\ (StepOf("ticktick_register_task_id") /\ NothingToLoad(resp'.loadFailed)
           /\ ~resp'.saveFailed)
          => (resp'.outcome = "success" /\ file'.kind = "doc"
              /\ DOMAIN file'.tasks = {resp'.id})]_vars

C8_ListOfUnparsable ==
  /\ build = "index"
  /\ resp.name = "ticktick_get_cached_tasks" /\ resp.ran /\ resp.args.defined
  /\ file.kind = "corrupt"
  /\ resp.outcome = "success"
  /\ resp.listed = {}

\* C9: a put for an id that a put with the same project and title already
\* stored leaves the key set as it was, with one record for the id whose
\* cached_at is the time of this second put, and every other record as it
\* was.
C9_PutIdempotent ==
  [][(StepOf("ticktick_register_task_id") /\ resp'.same
        /\ ~resp'.loadFailed /\ ~resp'.saveFailed)
       => /\ DOMAIN file'.tasks = DOMAIN file.tasks
          /\ file'.tasks[resp'.id] =
               [project_id |-> resp'.args.project_id, title |-> resp'.args.title,
                cached_at |-> ToISOString(now)]
          /\ \A k \in DOMAIN file.tasks \ {resp'.id} :
               file'.tasks[k] = file.tasks[k]]_vars

C9_SecondPutLater ==
  /\ resp.name = "ticktick_register_task_id" /\ resp.same /\ resp.stored
  /\ ~resp.loadFailed /\ ~resp.saveFailed
  /\ calls = 2
  /\ now > StartTime
  /\ DateParse(file.tasks[resp.id].cached_at) = now
  /\ Cardinality(DOMAIN file.tasks) = 1

Age(rec) == now - DateParse(rec.cached_at)

\* C10: a record is stale exactly when it has no cached_at or its age is
\* strictly greater than the 24-hour TTL: stale one second past the TTL,
\* fresh one second short of it, fresh at exactly the TTL.
C10_StaleExactly ==
  \A id \in DOMAIN file.tasks :
    LET rec == file.tasks[id] IN
      /\ isTaskStale(rec, now) <=>
           (rec.cached_at = NoTimestamp \/ Age(rec) > 86400000)
      /\ (rec.cached_at # NoTimestamp /\ Age(rec) = 86400000 + 1000)
           => isTaskStale(rec, now)
      /\ (rec.cached_at # NoTimestamp /\ Age(rec) = 86400000 - 1000)
           => ~isTaskStale(rec, now)
      /\ (rec.cached_at # NoTimestamp /\ Age(rec) = 86400000)
           => ~isTaskStale(rec, now)

C10_AgeExactlyTTL ==
  \E id \in DOMAIN file.tasks :
    /\ file.tasks[id].cached_at # NoTimestamp
    /\ Age(file.tasks[id]) = 86400000

C10_OneSecondPast ==
  \E id \in DOMAIN file.tasks :
    /\ file.tasks[id].cached_at # NoTimestamp
    /\ Age(file.tasks[id]) = 86400000 + 1000

C10_OneSecondShort ==
  \E id \in DOMAIN file.tasks :
    /\ file.tasks[id].cached_at # NoTimestamp
    /\ Age(file.tasks[id]) = 86400000 - 1000

\* is_stale as the design states it: no cached_at, or older than 24 hours
StaleNow(rec) ==
  rec.cached_at = NoTimestamp \/ now - DateParse(rec.cached_at) > 86400000

\* C11: list cached tasks returns exactly the records of the cache that pass
\* the project-id equality filter, when a project id is given, and that are
\* not stale, when include_stale is false; each one carries its staleness
\* flag.
C11_ListFiltered ==
  [][(StepOf("ticktick_get_cached_tasks") /\ resp'.outcome = "success"
        /\ resp'.args.include_stale \in {"true", "false"}
        /\ file.kind = "doc" /\ ~resp'.loadFailed)
       => resp'.listed =
            {<<id, StaleNow(file.tasks[id])>> :
               id \in {i \in DOMAIN file.tasks :
                         /\ resp'.args.project_id \in {Absent, file.tasks[i].project_id}
                         /\ (resp'.args.include_stale = "false"
                               => ~StaleNow(file.tasks[i]))}}]_vars

C11_OnlyTheFreshOne ==
  /\ build = "index"
  /\ resp.name = "ticktick_get_cached_tasks" /\ resp.outcome = "success"
  /\ resp.args.include_stale = "false"
  /\ file.kind = "doc" /\ DOMAIN file.tasks = {"t1", "t2"}
  /\ StaleNow(file.tasks["t1"])
  /\ ~StaleNow(file.tasks["t2"])
  /\ resp.listed = {<<"t2", FALSE>>}

\* the data rows of an import whose three fields are present and non-empty
WellFormedRows(lines) ==
  {i \in 2 .. Len(lines) :
     Len(lines[i]) >= 3 /\ \A j \in 1 .. 3 : lines[i][j] \notin {"", Absent}}

\* an import of a text with a header row, into a cache document, whose puts
\* read and write the file without error
ImportStep ==
  /\ StepOf("ticktick_import_from_csv")
  /\ resp'.args.has_csv
  /\ NonBlank(resp'.args.csv_data) # <<>>
  /\ file.kind = "doc"
  /\ ~resp'.loadFailed /\ ~resp'.saveFailed

\* C12: an import whose header is task_id, project_id, title registers every
\* data row that has the three fields present and non-empty and skips every
\* other row without stopping: the records added are exactly those of the
\* well-formed rows, and the header row is not registered.
C12_ImportWellFormedRows ==
  [][LET lines == NonBlank(resp'.args.csv_data) IN
       (ImportStep /\ lines[1] = <<"task_id", "project_id", "title">>)
         => /\ resp'.outcome = "success"
            /\ resp'.imported = Cardinality(WellFormedRows(lines))
            /\ DOMAIN file'.tasks =
                 DOMAIN file.tasks \cup {lines[i][1] : i \in WellFormedRows(lines)}
            /\ \A i \in WellFormedRows(lines) :
                 file'.tasks[lines[i][1]] =
                   [project_id |-> lines[i][2], title |-> lines[i][3],
                    cached_at |-> ToISOString(now)]
            /\ \A k \in DOMAIN file.tasks \ {lines[i][1] : i \in WellFormedRows(lines)} :
                 file'.tasks[k] = file.tasks[k]]_vars

C12_MalformedRowSkipped ==
  /\ build = "index"
  /\ resp.name = "ticktick_import_from_csv" /\ resp.outcome = "success"
  /\ resp.args.has_csv
  /\ Len(NonBlank(resp.args.csv_data)) = 3
  /\ NonBlank(resp.args.csv_data)[1] = <<"task_id", "project_id", "title">>
  /\ resp.imported = 1
  /\ ~resp.loadFailed /\ ~resp.saveFailed
  /\ file.kind = "doc" /\ DOMAIN file.tasks = {"t1"}
  /\ file.tasks["t1"].title = "a"

\* the position of a column in the header row
Column(header, name) == CHOOSE j \in 1 .. Len(header) : header[j] = name

\* C13: an import finds the columns by their names in the header: whatever
\* the order of task_id, project_id and title there, each data row is
\* registered under the value of its task_id column, with project_id and
\* title from their own columns.
C13_ColumnsFromHeader ==
  [][LET lines == NonBlank(resp'.args.csv_data)
         header == lines[1]
     IN (ImportStep /\ Len(header) = 3
           /\ {header[j] : j \in 1 .. 3} = {"task_id", "project_id", "title"})
          => \A i \in WellFormedRows(lines) :
               LET id == lines[i][Column(header, "task_id")] IN
                 /\ id \in DOMAIN file'.tasks
                 /\ file'.tasks[id].project_id = lines[i][Column(header, "project_id")]
                 /\ file'.tasks[id].title = lines[i][Column(header, "title")]]_vars

\* a handler leaves the upstream await of slot s and the request is answered
Resumed(s) == Busy(s) /\ ~Busy(s)' /\ resp' # NoResponse

\* C14: no handler exception escapes.  Every request is answered once, when
\* it is made or when its handler leaves the upstream await; an upstream
\* failure is answered as a failure that carries the message of the error;
\* after a failure the server still takes the next request.
C14_NoHandlerExceptionEscapes ==
  [][/\ calls' = calls + 1
          => \/ pending' = pending /\ resp'.outcome # "none"
             \/ /\ resp' = resp
                /\ Cardinality({s \in Slots : Busy(s)'}) =
                     Cardinality({s \in Slots : Busy(s)}) + 1
     /\ \A s \in Slots :
          Resumed(s)
            => /\ calls' = calls
               /\ \A u \in Slots \ {s} : Busy(u)' = Busy(u)
               /\ resp'.outcome \in {"success", "failure"}
               /\ resp'.name = pending[s].name
               /\ resp'.transport = pending[s].transport
               /\ resp'.args = pending[s].args
               /\ (resp'.outcome = "failure"
                     => resp'.msg \in UpstreamErrors /\ Kind(resp') = "HandlerError")
     /\ (resp.outcome = "failure" /\ calls < MaxCalls)
          => ENABLED (\E tr \in Transports, name \in StubNames :
                        \/ stubHandler(tr, name, EmptyArgs)
                        \/ gensparkCallTool(tr, name, EmptyArgs))]_vars

C14_FailureThenNextRequest ==
  /\ build = "index"
  /\ resp.outcome = "failure"
  /\ resp.msg \in UpstreamErrors
  /\ resp.transport = "rpc" /\ resp.code = "InternalError"
  /\ \E s \in Slots : Busy(s)

\* the invocation of register on a transport, its cache I/O working
RegisterOn(tr, args) ==
  \/ registerTaskId(tr, args, TRUE, TRUE)
  \/ tr = "execute" /\ executeWithoutHandler("ticktick_register_task_id", args)

\* C15: the result does not depend on the transport: what register does to
\* the cache and whether it succeeds are the same on the RPC call-tool path,
\* on its dedicated route and on the execute-by-name route.
C15_TransportIndependent ==
  (build = "index" /\ calls < MaxCalls)
    => \A args \in RegisterInputs \ {NoArgs} :
         LET run == registerTaskIdRun(file, args, now, TRUE, TRUE) IN
           \A tr \in Transports :
             ENABLED (/\ RegisterOn(tr, args)
                      /\ file' = run[1]
                      /\ resp'.outcome = IF run[2].ok THEN "success" ELSE "failure")

\* C16: every name of the catalog is callable through the execute-by-name
\* route: a request for it runs the operation's handler.
C16_ExecuteByName ==
  (Answered /\ resp.transport = "execute" /\ resp.name \in Catalog
     /\ resp.args.defined /\ MissingRequired(resp.name, resp.args) = {})
    => resp.ran

\* C17: when the upstream request of create-task fails, the invocation is
\* answered with a failure that carries the upstream status and reason, and
\* the cache file is as it was.
C17_UpstreamFailure ==
  [][\A s \in Slots :
       (build = "index" /\ Resumed(s) /\ pending[s].name = "ticktick_create_task"
          /\ resp'.outcome = "failure")
         => /\ file' = file
            /\ resp'.msg \in UpstreamErrors
            /\ Kind(resp') = "HandlerError"]_vars

C17_CreateFailed ==
  /\ build = "index"
  /\ resp.name = "ticktick_create_task" /\ resp.args.defined
  /\ resp.outcome = "failure"
  /\ resp.msg = "API request failed: 500 Internal Server Error"
  /\ file.kind = "doc" /\ DOMAIN file.tasks = {"t1"}
  /\ file.tasks["t1"].title = "old"

PutStep ==
  /\ \/ StepOf("ticktick_register_task_id")
     \/ /\ StepOf("ticktick_create_task")
        /\ \E s \in Slots : Resumed(s)
  /\ resp'.outcome = "success"
  /\ file.kind = "doc"
  /\ ~resp'.loadFailed /\ ~resp'.saveFailed

\* C19: a put changes the record of its task id alone: every other record
\* and every other member of the persisted document is after the put what it
\* was before.
C19_PutFrame ==
  [][PutStep
       => /\ file'.kind = "doc"
          /\ file'.siblings = file.siblings
          /\ DOMAIN file'.tasks = DOMAIN file.tasks \cup {resp'.id}
          /\ \A k \in DOMAIN file.tasks \ {resp'.id} :
               file'.tasks[k] = file.tasks[k]]_vars

C19_PutBesideForeign ==
  /\ build = "index"
  /\ resp.name \in {"ticktick_register_task_id", "ticktick_create_task"}
  /\ resp.outcome = "success" /\ resp.stored
  /\ ~resp.loadFailed /\ ~resp.saveFailed
  /\ resp.id = "t1"
  /\ file.siblings = Siblings
  /\ DOMAIN file.tasks = {"t1", "t2"}
  /\ file.tasks["t2"] = ForeignRecord

\* C20: on the HTTP transport a success is answered with status 200 and a
\* body marked success, a failure with a status other than 200 and an error
\* body; no failure is answered with 200.
C20_HttpStatus ==
  (Answered /\ resp.transport # "rpc")
    => /\ resp.outcome = "success" => resp.status = 200
       /\ resp.outcome = "failure" => (resp.status # 200 /\ resp.status >= 400)
       /\ resp.status = 200 => resp.outcome = "success"

C20_HandlerFailure500 ==
  /\ resp.transport = "route"
  /\ resp.ran
  /\ resp.outcome = "failure"
  /\ resp.status = 500

\* C21: a put stamps its record with the current time, so, the clock never
\* going back, the cached_at stored for a task id never decreases and is
\* never later than the current time.
C21_CachedAtMonotone ==
  [][/\ \A id \in DOMAIN file.tasks \cap DOMAIN file'.tasks :
          (file.tasks[id].cached_at # NoTimestamp
             /\ file'.tasks[id].cached_at # NoTimestamp)
            => DateParse(file'.tasks[id].cached_at) >= DateParse(file.tasks[id].cached_at)
     /\ \A id \in DOMAIN file'.tasks :
          file'.tasks[id].cached_at # NoTimestamp
            => DateParse(file'.tasks[id].cached_at) <= now'
     /\ now' >= now
     /\ PutStep => DateParse(file'.tasks[resp'.id].cached_at) = now]_vars

C21_RefreshedLater ==
  /\ build = "index"
  /\ resp.name = "ticktick_register_task_id" /\ resp.stored /\ resp.id = "t1"
  /\ ~resp.loadFailed /\ ~resp.saveFailed
  /\ now > StartTime
  /\ DOMAIN file.tasks = {"t1", "t2"}
  /\ DateParse(file.tasks["t1"].cached_at) = now
  /\ file.tasks["t2"] = OldRecord(Second)

\* a request is taken and answered in one step by the handler of name
AnsweredAtOnce(names) ==
  /\ build = "index"
  /\ calls' = calls + 1
  /\ pending' = pending
  /\ resp'.name \in names

\* C22: the cache file is changed only by a create-task the upstream
\* answered 2xx, by register and by import (and by the start-up write of the
\* empty document); list cached tasks and the placeholder operations leave
\* it as it was, and a placeholder operation issues no upstream request.
C22_OnlyPutsChangeCache ==
  [][/\ file' # file
          => \/ resp' = NoResponse /\ file.kind = "absent"
             \/ /\ build = "index"
                /\ resp'.ran /\ resp'.outcome = "success"
                /\ resp'.name \in {"ticktick_create_task", "ticktick_register_task_id",
                                   "ticktick_import_from_csv"}
     /\ AnsweredAtOnce(StubTools \cup {"ticktick_get_cached_tasks"}) => file' = file
     /\ \A s \in Slots :
          (~Busy(s) /\ Busy(s)') => pending'[s].name \notin StubTools]_vars

C22_StubLeftCache ==
  /\ build = "index"
  /\ resp.name \in StubTools /\ resp.ran /\ resp.outcome = "success"
  /\ calls = 2
  /\ \A s \in Slots : ~Busy(s)
  /\ file.kind = "doc" /\ DOMAIN file.tasks = {"t1"}
  /\ file.tasks["t1"].title = "a"

Distinct(seq) == \A i, j \in 1 .. Len(seq) : i # j => seq[i] # seq[j]
Range(seq) == {seq[i] : i \in 1 .. Len(seq)}

\* the names the running build advertises
Advertised == IF build = "index" THEN Range(AdvertisedTools) ELSE Range(GensparkTools)

\* C23: the advertised names are pairwise distinct, the call-tool
\* dispatcher routes each of them to a handler, and no name outside the
\* advertised list reaches a handler.
C23_CatalogMatchesDispatcher ==
  /\ Distinct(AdvertisedTools) /\ Distinct(GensparkTools)
  /\ Range(AdvertisedTools) = Catalog
  /\ \A name \in Catalog : SwitchCase(name) # "default"
  /\ (Answered /\ Reaches(resp.transport) /\ resp.name \notin Advertised) => ~resp.ran

\* C24: no retry: a handler has issued one upstream request while it is
\* suspended and none otherwise, whether the request succeeds or fails.
C24_NoRetry ==
  \A s \in Slots :
    /\ pending[s].requests <= 1
    /\ Busy(s) <=> pending[s].requests = 1

C24_FailedOnce ==
  /\ build = "index"
  /\ resp.name = "ticktick_get_projects"
  /\ resp.outcome = "failure"
  /\ resp.msg \in UpstreamErrors
  /\ \A s \in Slots : ~Busy(s) /\ pending[s].requests = 0
  /\ calls = 1

\* the columns a header row names
Named(header) == {header[j] : j \in 1 .. Len(header)}

\* C25: an import whose first non-blank line does not name task_id,
\* project_id and title, or whose text has no non-blank line, is answered
\* with a failure and leaves the cache file as it was.
C25_BadHeaderRejected ==
  [][LET lines == NonBlank(resp'.args.csv_data) IN
       (StepOf("ticktick_import_from_csv") /\ resp'.args.has_csv
          /\ (lines = <<>>
                \/ ~({"task_id", "project_id", "title"} \subseteq Named(lines[1]))))
         => (resp'.outcome = "failure" /\ file' = file)]_vars

\* C26: the cache survives a restart: start-up writes the empty document
\* only when there is no cache file, so the file an earlier run left is
\* after the restart what it was before.
C26_RestartKeepsCache ==
  [][\A writeOk \in BOOLEAN :
       restart(writeOk)
         => /\ file.kind # "absent" => file' = file
            /\ file.kind = "absent" => file' \in {file, JSONStringify(EmptyDocument)}]_vars

C26_RecordAfterRestart ==
  /\ build = "index"
  /\ resp = NoResponse
  /\ calls = 2
  /\ \A s \in Slots : ~Busy(s)
  /\ file.kind = "doc" /\ DOMAIN file.tasks = {"t1", "t2"}
  /\ file.tasks["t1"].title = "a"
  /\ file.tasks["t2"].title = "a"

\* an invocation that puts records reports success, no read or write of the
\* cache file having failed
PutsReported ==
  /\ build = "index"
  /\ resp' # resp
  /\ resp'.ran /\ resp'.args.defined
  /\ resp'.outcome = "success"
  /\ resp'.name \in {"ticktick_create_task", "ticktick_register_task_id"}
  /\ ~resp'.loadFailed /\ ~resp'.saveFailed

\* C27: in one server process, whatever the interleaving of create-task,
\* register and import, when no cache read or write fails the cache holds a
\* record for every id whose invocation reported success: each such
\* invocation leaves its id in the file and removes none.
C27_EverySuccessCached ==
  [][PutsReported
       => /\ resp'.id \in DOMAIN file'.tasks
          /\ DOMAIN file.tasks \subseteq DOMAIN file'.tasks]_vars

\* C28: with the cache file readable and writable, a success answer of
\* register means the file holds a record for the task id with the given
\* project id and title, whatever JSON object the file held before.
C28_RegisterSuccessMeansCached ==
  (build = "index" /\ resp.name = "ticktick_register_task_id"
     /\ resp.ran /\ resp.args.defined /\ resp.outcome = "success"
     /\ ~resp.loadFailed /\ ~resp.saveFailed
     /\ file.kind \in {"doc", "notasks"})
    => /\ file.kind = "doc"
       /\ resp.args.task_id \in DOMAIN file.tasks
       /\ file.tasks[resp.args.task_id].project_id = resp.args.project_id
       /\ file.tasks[resp.args.task_id].title = resp.args.title

\* C29: an operation whose schema requires no field succeeds when it is
\* invoked with an empty argument object or with none, its upstream request
\* (if it makes one) being answered 2xx.
C29_NoArgumentsNeeded ==
  (build = "index" /\ Answered /\ Reaches(resp.transport)
     /\ resp.name \in Catalog /\ Required(resp.name) = {}
     /\ resp.args \in {EmptyArgs, NoArgs}
     /\ resp.msg \notin UpstreamErrors)
    => resp.outcome = "success"

\* the arguments of a listing of every record
ListAll == Args(Absent, Absent, Absent, "true", FALSE, <<>>)

\* C30: staleness follows the clock and a put resets it: list cached tasks
\* reports a record fresh up to its cached_at plus the TTL and stale at
\* every later time, a put makes its record fresh again, and the passing of
\* time neither removes nor alters a record.
C30_StalenessFollowsClock ==
  [][/\ now' # now => file' = file
     /\ (StepOf("ticktick_get_cached_tasks") /\ resp'.outcome = "success"
           /\ resp'.args.include_stale = "true"
           /\ file.kind = "doc" /\ ~resp'.loadFailed)
          => \A e \in resp'.listed :
               file.tasks[e[1]].cached_at # NoTimestamp
                 => (e[2] <=> now > DateParse(file.tasks[e[1]].cached_at) + 86400000)
     /\ PutStep => <<resp'.id, FALSE>> \in CachedTaskList(file', ListAll, now', TRUE)]_vars

C30_StaleAndFreshListed ==
  /\ build = "index"
  /\ resp.name = "ticktick_get_cached_tasks" /\ resp.outcome = "success"
  /\ resp.args.include_stale = "true" /\ ~resp.loadFailed
  /\ file.kind = "doc" /\ DOMAIN file.tasks = {"t1", "t2"}
  /\ file.tasks["t1"].title = "old"
  /\ file.tasks["t2"].title = "a"
  /\ resp.listed = {<<"t1", TRUE>>, <<"t2", FALSE>>}
====
